---------------------------- MODULE Spec2Model ----------------------------
(***************************************************************************)
(* DeafAUTH: signup / verify / login / me over a user store, with PASETO   *)
(* v4.local bearer tokens (src/deafauth/routes.py, auth.py, models.py).    *)
(*                                                                         *)
(* Strings are sequences of one-character strings, so that strip, lower,   *)
(* split, len, str and int are computed as the code computes them.         *)
(* Instants are whole seconds since the start of the run.                  *)
(***************************************************************************)
EXTENDS Integers, Sequences, FiniteSets, Bags, TLC

VARIABLES
    users,      \* the users table: row i is the User with id i (models.py)
    inflight,   \* bag of requests between their store lookup and their commit
    now,        \* the current instant (datetime.now(timezone.utc)), in seconds
    secret,     \* current_app.config['SECRET_KEY']
    held,       \* the bearer token a client keeps from a login: {} or {token}
    last,       \* the most recent response, with the request it answers
    vtokOf,     \* history: vtokOf[i] is the verification token issued to user i
    ok201,      \* history: the emails of the signups answered 201, in order
    cx          \* TokenSpec only: one generate_token / verify_token experiment

vars == <<users, inflight, now, secret, held, last, vtokOf, ok201, cx>>

---------------------------------------------------------------------------
(* Bounds of the model.                                                    *)

\* the clock advances at most this many times
MaxTicks == 2
\* at most this many requests are between lookup and commit at once
MaxInflight == 2
\* TokenSpec: lifetimes -1..MaxTtl and instants 0..MaxNow
MaxTtl == 2
MaxNow == 2

---------------------------------------------------------------------------
(* Characters and strings.                                                 *)

LowerLetters ==
    <<"a","b","c","d","e","f","g","h","i","j","k","l","m",
      "n","o","p","q","r","s","t","u","v","w","x","y","z">>

UpperLetters ==
    <<"A","B","C","D","E","F","G","H","I","J","K","L","M",
      "N","O","P","Q","R","S","T","U","V","W","X","Y","Z">>

DigitChars == <<"0","1","2","3","4","5","6","7","8","9">>

Range(s) == { s[i] : i \in DOMAIN s }

Letters == Range(LowerLetters) \cup Range(UpperLetters)

\* str.isspace for the characters a request can carry here
IsSpace(c) == c \in {" ", "\t"}

\* str.lower on one character
LowerChar(c) ==
    IF c \in Range(UpperLetters)
    THEN LowerLetters[CHOOSE i \in DOMAIN UpperLetters : UpperLetters[i] = c]
    ELSE c

\* str.lower
Lower(s) == [i \in DOMAIN s |-> LowerChar(s[i])]

\* str.strip: drop leading and trailing whitespace
Strip(s) ==
    LET keep == { i \in DOMAIN s : ~IsSpace(s[i]) }
    IN  IF keep = {} THEN <<>>
        ELSE LET lo == CHOOSE i \in keep : \A j \in keep : i <= j
                 hi == CHOOSE i \in keep : \A j \in keep : j <= i
             IN  SubSeq(s, lo, hi)

\* data.get('email', '').strip().lower()
NormalizeEmail(raw) == Lower(Strip(raw))


\* the character classes of the pattern of is_valid_email
LocalChars == Letters \cup Range(DigitChars) \cup {".", "_", "%", "+", "-"}

DomainChars == Letters \cup Range(DigitChars) \cup {".", "-"}

AllIn(s, lo, hi, cls) == \A k \in lo..hi : s[k] \in cls

\* re.match(r'^[a-zA-Z0-9._%+-]+@[a-zA-Z0-9.-]+\.[a-zA-Z]{2,}$', email):
\* some '@' at position i and some '.' at position j split the string into a
\* non-empty local part, a non-empty domain and a tld of two or more letters
is_valid_email(email) ==
    \E i \in DOMAIN email : \E j \in DOMAIN email :
        /\ 1 < i /\ i + 1 < j /\ j + 2 <= Len(email)
        /\ email[i] = "@" /\ email[j] = "."
        /\ AllIn(email, 1, i - 1, LocalChars)
        /\ AllIn(email, i + 1, j - 1, DomainChars)
        /\ AllIn(email, j + 1, Len(email), Letters)

---------------------------------------------------------------------------
(* Numbers and instants as text.                                           *)

RECURSIVE StrOfNat(_)
\* the decimal digits of a natural number, most significant first
StrOfNat(n) ==
    IF n < 10 THEN <<DigitChars[n + 1]>>
    ELSE Append(StrOfNat(n \div 10), DigitChars[(n % 10) + 1])

\* str(n) for an int
StrOfInt(n) == IF n < 0 THEN <<"-">> \o StrOfNat(-n) ELSE StrOfNat(n)

DigitVal(c) == (CHOOSE k \in DOMAIN DigitChars : DigitChars[k] = c) - 1

RECURSIVE NatOfStr(_)
NatOfStr(s) ==
    IF s = <<>> THEN 0
    ELSE 10 * NatOfStr(SubSeq(s, 1, Len(s) - 1)) + DigitVal(s[Len(s)])

IsDigits(s) == s # <<>> /\ \A k \in DOMAIN s : s[k] \in Range(DigitChars)

\* whether int(s) returns rather than raising ValueError
IsIntStr(s) ==
    \/ IsDigits(s)
    \/ Len(s) > 1 /\ s[1] \in {"-", "+"} /\ IsDigits(Tail(s))

\* int(s), for s with IsIntStr(s)
IntOfStr(s) ==
    IF s[1] = "-" THEN 0 - NatOfStr(Tail(s))
    ELSE IF s[1] = "+" THEN NatOfStr(Tail(s))
    ELSE NatOfStr(s)

UtcOffset == <<"+","0","0",":","0","0">>

\* datetime.isoformat() of an aware UTC instant: the instant's text followed by
\* the offset "+00:00"
IsoFormat(t) == StrOfInt(t) \o UtcOffset

IsIsoStr(s) ==
    /\ Len(s) > Len(UtcOffset)
    /\ SubSeq(s, Len(s) - Len(UtcOffset) + 1, Len(s)) = UtcOffset
    /\ IsIntStr(SubSeq(s, 1, Len(s) - Len(UtcOffset)))

\* datetime.fromisoformat(s), for s with IsIsoStr(s)
FromIsoFormat(s) == IntOfStr(SubSeq(s, 1, Len(s) - Len(UtcOffset)))

---------------------------------------------------------------------------
(* Passwords (werkzeug.security).                                          *)

\* the salts generate_password_hash may draw
Salts == {"s1", "s2"}

\* the salted one-way digest, idealised as the pair it is computed from
Digest(salt, password) == <<salt, password>>

\* generate_password_hash(password) with the salt it drew
generate_password_hash(salt, password) ==
    [salt |-> salt, digest |-> Digest(salt, password)]

\* check_password_hash(pwhash, password): recompute under the stored salt
check_password_hash(pwhash, password) ==
    pwhash.digest = Digest(pwhash.salt, password)

---------------------------------------------------------------------------
(* PASETO v4.local tokens (pyseto) and auth.py.                            *)
(* A token string is a sequence of items: plain characters, and the opaque *)
(* authenticated ciphertext, which is one item carrying what it encrypts.  *)

Prefix == "v4.local."

NoPayload == [sub |-> <<>>, exp |-> <<>>, iat |-> <<>>]

\* the item field of a plain character
NoTok == [ver |-> "", key |-> <<"", "">>, intact |-> FALSE, payload |-> NoPayload]

Ch(c) == [ch |-> c, tok |-> NoTok]

Blob(t) == [ch |-> "", tok |-> t]

Text(s) == [i \in DOMAIN s |-> Ch(s[i])]

\* mutant: the key does not depend on the configured secret
get_paseto_keyFixed(sec) == <<"sha256", "dev-secret-key-change-in-production">>

\* hashlib.sha256(secret_key.encode()).digest() as a v4.local key: one-way and
\* collision-free, idealised as a constructor
get_paseto_key(sec) == <<"sha256", sec>>

\* pyseto.encode(key, payload): the payload sealed under the key
PasetoEncode(key, payload) ==
    <<Blob([ver |-> Prefix, key |-> key, intact |-> TRUE, payload |-> payload])>>

\* mutant: a token sealed under any key decodes
PasetoDecodesAnyKey(key, token) ==
    /\ Len(token) = 1
    /\ token[1].tok # NoTok
    /\ token[1].tok.ver = Prefix
    /\ token[1].tok.intact

\* whether pyseto.decode(key, token) returns rather than raising: the string
\* is one well-formed v4.local token, sealed under this key, with its
\* ciphertext and tag untouched
PasetoDecodes(key, token) ==
    /\ Len(token) = 1
    /\ token[1].tok # NoTok
    /\ token[1].tok.ver = Prefix
    /\ token[1].tok.key = key
    /\ token[1].tok.intact

\* mutant: the subject is taken from the wrong argument
generate_tokenWrongSub(user_id, expires_in, sec, t) ==
    PasetoEncode(get_paseto_key(sec),
                 [sub |-> StrOfInt(expires_in),
                  exp |-> IsoFormat(t + expires_in),
                  iat |-> IsoFormat(t)])

\* generate_token(user_id, expires_in) called at instant t under secret sec
generate_token(user_id, expires_in, sec, t) ==
    LET key == get_paseto_key(sec)
        exp == t + expires_in
        payload == [sub |-> StrOfInt(user_id),
                    exp |-> IsoFormat(exp),
                    iat |-> IsoFormat(t)]
    IN  PasetoEncode(key, payload)

None == [ok |-> FALSE, payload |-> NoPayload]

\* mutant: the expiry is never compared
verify_tokenNoExpiry(token, sec, t) ==
    IF ~PasetoDecodes(get_paseto_key(sec), token)
    THEN [ok |-> FALSE, payload |-> NoPayload]
    ELSE [ok |-> TRUE, payload |-> token[1].tok.payload]

\* mutant: the token is refused from the instant of its expiry on
verify_tokenRejectsAtExpiry(token, sec, t) ==
    LET key == get_paseto_key(sec)
    IN  IF ~PasetoDecodes(key, token) THEN None
        ELSE LET payload == token[1].tok.payload
             IN  IF ~IsIsoStr(payload.exp) THEN None
                 ELSE IF FromIsoFormat(payload.exp) <= t THEN None
                 ELSE [ok |-> TRUE, payload |-> payload]

\* verify_token(token) called at instant t under secret sec: the payload, or
\* None when decoding raises or the expiry lies before t
verify_token(token, sec, t) ==
    LET key == get_paseto_key(sec)
    IN  IF ~PasetoDecodes(key, token) THEN None
        ELSE LET payload == token[1].tok.payload
             IN  IF ~IsIsoStr(payload.exp) THEN None
                 ELSE IF FromIsoFormat(payload.exp) < t THEN None
                 ELSE [ok |-> TRUE, payload |-> payload]

RECURSIVE Split(_)
\* str.split(): the maximal runs of non-whitespace items, in order
Split(s) ==
    IF s = <<>> THEN <<>>
    ELSE IF IsSpace(s[1].ch) THEN Split(Tail(s))
    ELSE LET stops == { i \in DOMAIN s : IsSpace(s[i].ch) }
             n == IF stops = {} THEN Len(s)
                  ELSE (CHOOSE i \in stops : \A j \in stops : i <= j) - 1
         IN  <<SubSeq(s, 1, n)>> \o Split(SubSeq(s, n + 1, Len(s)))

LowerItems(w) == [i \in DOMAIN w |-> [w[i] EXCEPT !.ch = LowerChar(w[i].ch)]]

Bearer == Text(<<"b","e","a","r","e","r">>)

\* mutant: any two-part header is taken, whatever its scheme
ExtractTokenAnyScheme(hdr) ==
    IF ~hdr.present \/ hdr.value = <<>> THEN <<>>
    ELSE LET parts == Split(hdr.value)
         IN  IF Len(parts) = 2 THEN parts[2] ELSE <<>>

\* the token the decorator takes from the Authorization header: <<>> when it
\* stays None (lines 90-97)
ExtractToken(hdr) ==
    IF ~hdr.present \/ hdr.value = <<>> THEN <<>>
    ELSE LET parts == Split(hdr.value)
         IN  IF Len(parts) = 2 /\ LowerItems(parts[1]) = Bearer
             THEN parts[2] ELSE <<>>

\* mutant: an expired token gets an answer of its own
token_requiredLeaky(hdr, sec, t) ==
    LET token == ExtractToken(hdr)
        payload == verify_token(token, sec, t)
    IN  IF token = <<>>
        THEN [status |-> 401, error |-> "Token is missing", called |-> FALSE, user_id |-> 0]
        ELSE IF ~payload.ok /\ PasetoDecodes(get_paseto_key(sec), token)
        THEN [status |-> 401, error |-> "Token has expired", called |-> FALSE, user_id |-> 0]
        ELSE IF ~payload.ok
        THEN [status |-> 401, error |-> "Token is invalid or expired", called |-> FALSE, user_id |-> 0]
        ELSE [status |-> 200, error |-> "", called |-> TRUE,
              user_id |-> IntOfStr(payload.payload.sub)]

\* token_required around f, up to the call of f: the 401 it answers, or the
\* user_id it passes on
token_required(hdr, sec, t) ==
    LET token == ExtractToken(hdr)
        payload == verify_token(token, sec, t)
    IN  IF token = <<>>
        THEN [status |-> 401, error |-> "Token is missing", called |-> FALSE, user_id |-> 0]
        ELSE IF ~payload.ok
        THEN [status |-> 401, error |-> "Token is invalid or expired", called |-> FALSE, user_id |-> 0]
        ELSE IF ~IsIntStr(payload.payload.sub)
        THEN [status |-> 500, error |-> "ValueError", called |-> FALSE, user_id |-> 0]
        ELSE [status |-> 200, error |-> "", called |-> TRUE,
              user_id |-> IntOfStr(payload.payload.sub)]

---------------------------------------------------------------------------
(* The users table (models.py) and the requests clients send.              *)

\* verification_token IS NULL
NULL == <<>>

\* the n-th value secrets.token_urlsafe(32) can return, as text
VTok(n) == <<"t">> \o StrOfNat(n)

\* a verification token no signup ever issued
BogusVTok == <<"i","n","v","a","l","i","d">>

\* datetime.isoformat() of the naive utcnow() instant stored as created_at
IsoFormatNaive(t) == StrOfInt(t)

\* User.to_dict(): the public view.  updated_at is a column no code reads, not
\* even this serialisation, and rows do not carry it
to_dict(u) ==
    [id |-> u.id, email |-> u.email, is_verified |-> u.is_verified,
     created_at |-> IsoFormatNaive(u.created_at)]

NoView == [id |-> 0, email |-> <<>>, is_verified |-> FALSE, created_at |-> <<>>]

\* User.query.filter_by(email=email).first(): the ids of the rows that match
ByEmail(email) == { i \in DOMAIN users : users[i].email = email }

\* User.query.filter_by(verification_token=token).first(): NULL matches nothing
ByVTok(token) == { i \in DOMAIN users : users[i].verification_token = token }

First(ids) == CHOOSE i \in ids : \A j \in ids : i <= j

\* the verification tokens that exist: issued to a user, or being issued
KnownVToks ==
    Range(vtokOf) \cup { r.verification_token : r \in BagToSet(inflight) }

\* secrets.token_urlsafe(32): a value that collides with no token in existence
FreshVTok ==
    VTok(CHOOSE n \in 1..(Cardinality(KnownVToks) + 1) :
            /\ VTok(n) \notin KnownVToks
            /\ \A m \in 1..(n - 1) : VTok(m) \in KnownVToks)

DefaultTtl == 3600

Secrets == {"dev-secret-key-change-in-production", "test-secret-key"}

EmailA == <<"a","@","b",".","c","o">>
EmailAraw == <<" ","A","@","B",".","c","o"," ">>
EmailC == <<"c","@","d",".","i","o">>
EmailShortTld == <<"a","@","b",".","c">>
EmailNoAt == <<"a","b",".","c","o">>
EmailBlank == <<" ">>

RawEmails == {EmailA, EmailAraw, EmailC, EmailShortTld, EmailNoAt, EmailBlank, <<>>}

Pw7 == <<"p","a","s","s","w","o","r">>
Pw8 == <<"p","a","s","s","w","o","r","d">>
Pw9 == <<"p","a","s","s","w","o","r","d","1">>

Passwords == {<<>>, Pw7, Pw8}

\* request.get_json(): no body, or a body with the two fields (a missing field
\* reads as '')
NoData == [hasData |-> FALSE, email |-> <<>>, password |-> <<>>]

Bodies ==
    {NoData} \cup
    { [hasData |-> TRUE, email |-> e, password |-> p] :
        e \in RawEmails, p \in Passwords }

NoRow == [id |-> 0, email |-> <<>>, password_hash |-> generate_password_hash("s1", <<>>),
          is_verified |-> FALSE, verification_token |-> NULL,
          created_at |-> 0]

\* a response, the request it answers, and whether the users table differs
\* from what it was when the step that answered began
Response(op, req, status, msg, user, token, vtoken, why) ==
    [op |-> op, req |-> req, status |-> status, msg |-> msg, user |-> user,
     token |-> token, verification_token |-> vtoken, why |-> why,
     wrote |-> users' # users]

Pending(op, data, row, token) ==
    [op |-> op, data |-> data, row |-> row, verification_token |-> token]

Put(r) == inflight (+) SetToBag({r})

Take(r) == inflight (-) SetToBag({r})

---------------------------------------------------------------------------
(* The handlers (routes.py).  A handler that writes takes two steps, its   *)
(* lookup and its commit, and other requests may run between them.         *)

\* mutant: the password is validated before the email
SignupLookupPasswordFirst(data, salt) ==
    LET email == NormalizeEmail(data.email)
        password == data.password
        reply(status, msg, why) ==
            /\ last' = Response("signup", data, status, msg, NoView, <<>>, NULL, why)
            /\ UNCHANGED inflight
    IN  /\ UNCHANGED <<users, now, secret, held, vtokOf, ok201, cx>>
        /\ IF ~data.hasData
           THEN reply(400, "No data provided", "nodata")
           ELSE IF password = <<>> \/ Len(password) < 8
           THEN reply(400, "Password must be at least 8 characters", "password")
           ELSE IF email = <<>> \/ ~is_valid_email(email)
           THEN reply(400, "Valid email is required", "email")
           ELSE IF ByEmail(email) # {}
           THEN reply(409, "Email already registered", "exists")
           ELSE /\ BagCardinality(inflight) < MaxInflight
                /\ inflight' = Put(Pending("signup", data,
                        [NoRow EXCEPT !.email = email,
                                      !.password_hash = generate_password_hash(salt, password),
                                      !.verification_token = FreshVTok,
                                      !.is_verified = FALSE],
                        FreshVTok))
                /\ UNCHANGED last

\* signup, lines 33-62: validation, the lookup by email and the new User object
SignupLookup(data, salt) ==
    LET email == NormalizeEmail(data.email)
        password == data.password
        reply(status, msg, why) ==
            /\ last' = Response("signup", data, status, msg, NoView, <<>>, NULL, why)
            /\ UNCHANGED inflight
    IN  /\ UNCHANGED <<users, now, secret, held, vtokOf, ok201, cx>>
        /\ IF ~data.hasData
           THEN reply(400, "No data provided", "nodata")
           ELSE IF email = <<>> \/ ~is_valid_email(email)
           THEN reply(400, "Valid email is required", "email")
           ELSE IF password = <<>> \/ Len(password) < 8
           THEN reply(400, "Password must be at least 8 characters", "password")
           ELSE IF ByEmail(email) # {}
           THEN reply(409, "Email already registered", "exists")
           ELSE /\ BagCardinality(inflight) < MaxInflight
                /\ inflight' = Put(Pending("signup", data,
                        [NoRow EXCEPT !.email = email,
                                      !.password_hash = generate_password_hash(salt, password),
                                      !.verification_token = FreshVTok,
                                      !.is_verified = FALSE],
                        FreshVTok))
                /\ UNCHANGED last

\* mutant: the email column without its UNIQUE constraint
InsertAllowedNoUnique(row) == TRUE

\* whether the INSERT of the row passes the UNIQUE constraint on users.email
\* (models.py line 17)
InsertAllowed(row) == ByEmail(row.email) = {}

\* mutant: the token goes out in the response and is not stored with the user
SignupCommitTokenNotStored(r) ==
    /\ r \in BagToSet(inflight) /\ r.op = "signup"
    /\ inflight' = Take(r)
    /\ UNCHANGED <<now, secret, held, cx>>
    /\ IF InsertAllowed(r.row)
       THEN LET user == [r.row EXCEPT !.id = Len(users) + 1,
                                      !.created_at = now,
                                      !.verification_token = NULL]
            IN  /\ users' = Append(users, user)
                /\ vtokOf' = Append(vtokOf, r.verification_token)
                /\ ok201' = Append(ok201, r.data.email)
                /\ last' = Response("signup", r.data, 201, "User created successfully",
                                    to_dict(user), <<>>, r.verification_token, "created")
       ELSE /\ UNCHANGED <<users, vtokOf, ok201>>
            /\ last' = Response("signup", r.data, 500, "Failed to create user",
                                NoView, <<>>, NULL, "integrity")

\* signup, lines 64-77: db.session.add, db.session.commit and the answer.  A
\* row whose email is taken makes the commit raise IntegrityError, which the
\* handler's except clause answers like any other store failure
SignupCommit(r) ==
    /\ r \in BagToSet(inflight) /\ r.op = "signup"
    /\ inflight' = Take(r)
    /\ UNCHANGED <<now, secret, held, cx>>
    /\ IF InsertAllowed(r.row)
       THEN LET user == [r.row EXCEPT !.id = Len(users) + 1,
                                      !.created_at = now]
            IN  /\ users' = Append(users, user)
                /\ vtokOf' = Append(vtokOf, r.verification_token)
                /\ ok201' = Append(ok201, r.data.email)
                /\ last' = Response("signup", r.data, 201, "User created successfully",
                                    to_dict(user), <<>>, r.verification_token, "created")
       ELSE /\ UNCHANGED <<users, vtokOf, ok201>>
            /\ last' = Response("signup", r.data, 500, "Failed to create user",
                                NoView, <<>>, NULL, "integrity")

\* signup, lines 67-70 when the store itself fails: rollback and 500
SignupCommitFails(r) ==
    /\ r \in BagToSet(inflight) /\ r.op = "signup"
    /\ inflight' = Take(r)
    /\ UNCHANGED <<users, now, secret, held, vtokOf, ok201, cx>>
    /\ last' = Response("signup", r.data, 500, "Failed to create user",
                        NoView, <<>>, NULL, "store")

\* verify_email, lines 83-92: the lookup by token and the two early answers
VerifyLookup(token) ==
    /\ UNCHANGED <<users, now, secret, held, vtokOf, ok201, cx>>
    /\ IF ByVTok(token) = {}
       THEN /\ last' = Response("verify", token, 400, "Invalid verification token",
                                NoView, <<>>, NULL, "nomatch")
            /\ UNCHANGED inflight
       ELSE LET user == users[First(ByVTok(token))]
            IN  IF user.is_verified
                THEN /\ last' = Response("verify", token, 200, "Email already verified",
                                         to_dict(user), <<>>, NULL, "already")
                     /\ UNCHANGED inflight
                ELSE /\ BagCardinality(inflight) < MaxInflight
                     /\ inflight' = Put(Pending("verify", token, user, token))
                     /\ UNCHANGED last

\* mutant: the update sets is_verified and leaves the token in place
VerifyCommitKeepsToken(r) ==
    /\ r \in BagToSet(inflight) /\ r.op = "verify"
    /\ inflight' = Take(r)
    /\ UNCHANGED <<now, secret, held, vtokOf, ok201, cx>>
    /\ users' = [users EXCEPT ![r.row.id].is_verified = TRUE]
    /\ last' = Response("verify", r.data, 200, "Email verified successfully",
                        to_dict(users'[r.row.id]), <<>>, NULL, "verified")

\* mutant: the update of verify_email overwrites the password hash as well
VerifyCommitClearsHash(r) ==
    /\ r \in BagToSet(inflight) /\ r.op = "verify"
    /\ inflight' = Take(r)
    /\ UNCHANGED <<now, secret, held, vtokOf, ok201, cx>>
    /\ users' = [users EXCEPT ![r.row.id].is_verified = TRUE,
                              ![r.row.id].verification_token = NULL,
                              ![r.row.id].password_hash = generate_password_hash("s1", <<>>)]
    /\ last' = Response("verify", r.data, 200, "Email verified successfully",
                        to_dict(users'[r.row.id]), <<>>, NULL, "verified")

\* mutant: the update clears the token and leaves is_verified as it was
VerifyCommitOnlyClearsToken(r) ==
    /\ r \in BagToSet(inflight) /\ r.op = "verify"
    /\ inflight' = Take(r)
    /\ UNCHANGED <<now, secret, held, vtokOf, ok201, cx>>
    /\ users' = [users EXCEPT ![r.row.id].verification_token = NULL]
    /\ last' = Response("verify", r.data, 200, "Email verified successfully",
                        to_dict(users'[r.row.id]), <<>>, NULL, "verified")

\* verify_email, lines 91-104: the UPDATE of the loaded row and the answer
VerifyCommit(r) ==
    /\ r \in BagToSet(inflight) /\ r.op = "verify"
    /\ inflight' = Take(r)
    /\ UNCHANGED <<now, secret, held, vtokOf, ok201, cx>>
    /\ users' = [users EXCEPT ![r.row.id].is_verified = TRUE,
                              ![r.row.id].verification_token = NULL]
    /\ last' = Response("verify", r.data, 200, "Email verified successfully",
                        to_dict(users'[r.row.id]), <<>>, NULL, "verified")

\* mutant: the rollback is missing and the flag set before the commit stays
VerifyCommitFailsNoRollback(r) ==
    /\ r \in BagToSet(inflight) /\ r.op = "verify"
    /\ inflight' = Take(r)
    /\ UNCHANGED <<now, secret, held, vtokOf, ok201, cx>>
    /\ users' = [users EXCEPT ![r.row.id].is_verified = TRUE]
    /\ last' = Response("verify", r.data, 500, "Failed to verify email",
                        NoView, <<>>, NULL, "store")

\* verify_email, lines 96-99 when the store fails: rollback and 500
VerifyCommitFails(r) ==
    /\ r \in BagToSet(inflight) /\ r.op = "verify"
    /\ inflight' = Take(r)
    /\ UNCHANGED <<users, now, secret, held, vtokOf, ok201, cx>>
    /\ last' = Response("verify", r.data, 500, "Failed to verify email",
                        NoView, <<>>, NULL, "store")

\* what a client keeps of a login: the token, with the user whose login issued
\* it, the instant and the secret of the issue
Kept(token, user, t, sec) == [token |-> token, uid |-> user.id, iat |-> t, sec |-> sec]

\* mutant: an unknown email gets an answer of its own
LoginLeaky(data) ==
    LET email == NormalizeEmail(data.email)
        password == data.password
        reply(status, msg, why) ==
            /\ last' = Response("login", data, status, msg, NoView, <<>>, NULL, why)
            /\ UNCHANGED held
    IN  /\ UNCHANGED <<users, inflight, now, secret, vtokOf, ok201, cx>>
        /\ IF ~data.hasData
           THEN reply(400, "No data provided", "nodata")
           ELSE IF email = <<>> \/ password = <<>>
           THEN reply(400, "Email and password are required", "fields")
           ELSE IF ByEmail(email) = {}
           THEN reply(404, "User not found", "nouser")
           ELSE LET user == users[First(ByEmail(email))]
                IN  IF ~check_password_hash(user.password_hash, password)
                    THEN reply(401, "Invalid email or password", "badpw")
                    ELSE LET token == generate_token(user.id, DefaultTtl, secret, now)
                         IN  /\ last' = Response("login", data, 200, "Login successful",
                                                 to_dict(user), token, NULL, "issued")
                             /\ held' \in {held, {Kept(token, user, now, secret)}}

\* mutant: a successful login records itself in the user's row
LoginStoresSession(data) ==
    LET email == NormalizeEmail(data.email)
        password == data.password
        reply(status, msg, why) ==
            /\ UNCHANGED users
            /\ last' = Response("login", data, status, msg, NoView, <<>>, NULL, why)
            /\ UNCHANGED held
    IN  /\ UNCHANGED <<inflight, now, secret, vtokOf, ok201, cx>>
        /\ IF ~data.hasData
           THEN reply(400, "No data provided", "nodata")
           ELSE IF email = <<>> \/ password = <<>>
           THEN reply(400, "Email and password are required", "fields")
           ELSE IF ByEmail(email) = {}
           THEN reply(401, "Invalid email or password", "nouser")
           ELSE LET user == users[First(ByEmail(email))]
                IN  IF ~check_password_hash(user.password_hash, password)
                    THEN reply(401, "Invalid email or password", "badpw")
                    ELSE LET token == generate_token(user.id, DefaultTtl, secret, now)
                         IN  /\ users' = [users EXCEPT ![user.id].is_verified = TRUE]
                             /\ last' = Response("login", data, 200, "Login successful",
                                                 to_dict(user), token, NULL, "issued")
                             /\ held' \in {held, {Kept(token, user, now, secret)}}

\* mutant: the email is looked up as it was sent
LoginNoNormalize(data) ==
    LET email == data.email
        password == data.password
        reply(status, msg, why) ==
            /\ last' = Response("login", data, status, msg, NoView, <<>>, NULL, why)
            /\ UNCHANGED held
    IN  /\ UNCHANGED <<users, inflight, now, secret, vtokOf, ok201, cx>>
        /\ IF ~data.hasData
           THEN reply(400, "No data provided", "nodata")
           ELSE IF email = <<>> \/ password = <<>>
           THEN reply(400, "Email and password are required", "fields")
           ELSE IF ByEmail(email) = {}
           THEN reply(401, "Invalid email or password", "nouser")
           ELSE LET user == users[First(ByEmail(email))]
                IN  IF ~check_password_hash(user.password_hash, password)
                    THEN reply(401, "Invalid email or password", "badpw")
                    ELSE LET token == generate_token(user.id, DefaultTtl, secret, now)
                         IN  /\ last' = Response("login", data, 200, "Login successful",
                                                 to_dict(user), token, NULL, "issued")
                             /\ held' \in {held, {Kept(token, user, now, secret)}}

\* mutant: an unverified user is refused
LoginRequiresVerified(data) ==
    LET email == NormalizeEmail(data.email)
        password == data.password
        reply(status, msg, why) ==
            /\ last' = Response("login", data, status, msg, NoView, <<>>, NULL, why)
            /\ UNCHANGED held
    IN  /\ UNCHANGED <<users, inflight, now, secret, vtokOf, ok201, cx>>
        /\ IF ~data.hasData
           THEN reply(400, "No data provided", "nodata")
           ELSE IF email = <<>> \/ password = <<>>
           THEN reply(400, "Email and password are required", "fields")
           ELSE IF ByEmail(email) = {}
           THEN reply(401, "Invalid email or password", "nouser")
           ELSE LET user == users[First(ByEmail(email))]
                IN  IF ~check_password_hash(user.password_hash, password)
                    THEN reply(401, "Invalid email or password", "badpw")
                    ELSE IF ~user.is_verified
                    THEN reply(403, "Email not verified", "unverified")
                    ELSE LET token == generate_token(user.id, DefaultTtl, secret, now)
                         IN  /\ last' = Response("login", data, 200, "Login successful",
                                                 to_dict(user), token, NULL, "issued")
                             /\ held' \in {held, {Kept(token, user, now, secret)}}

\* login, lines 107-133; the client keeps the new token or the one it had
Login(data) ==
    LET email == NormalizeEmail(data.email)
        password == data.password
        reply(status, msg, why) ==
            /\ last' = Response("login", data, status, msg, NoView, <<>>, NULL, why)
            /\ UNCHANGED held
    IN  /\ UNCHANGED <<users, inflight, now, secret, vtokOf, ok201, cx>>
        /\ IF ~data.hasData
           THEN reply(400, "No data provided", "nodata")
           ELSE IF email = <<>> \/ password = <<>>
           THEN reply(400, "Email and password are required", "fields")
           ELSE IF ByEmail(email) = {}
           THEN reply(401, "Invalid email or password", "nouser")
           ELSE LET user == users[First(ByEmail(email))]
                IN  IF ~check_password_hash(user.password_hash, password)
                    THEN reply(401, "Invalid email or password", "badpw")
                    ELSE LET token == generate_token(user.id, DefaultTtl, secret, now)
                         IN  /\ last' = Response("login", data, 200, "Login successful",
                                                 to_dict(user), token, NULL, "issued")
                             /\ held' \in {held, {Kept(token, user, now, secret)}}

\* mutant: the first row is returned, whoever asks
get_current_userFirst(hdr, user_id) ==
    IF users = <<>>
    THEN Response("me", hdr, 404, "User not found", NoView, <<>>, NULL, "nouser")
    ELSE Response("me", hdr, 200, "", to_dict(users[1]), <<>>, NULL, "user")

\* get_current_user, lines 136-145: User.query.get(user_id) and the answer
get_current_user(hdr, user_id) ==
    IF user_id \notin DOMAIN users
    THEN Response("me", hdr, 404, "User not found", NoView, <<>>, NULL, "nouser")
    ELSE Response("me", hdr, 200, "", to_dict(users[user_id]), <<>>, NULL, "user")

\* GET /auth/me: get_current_user behind token_required (auth.py 88-107)
Me(hdr) ==
    LET g == token_required(hdr, secret, now)
    IN  /\ UNCHANGED <<users, inflight, now, secret, held, vtokOf, ok201, cx>>
        /\ last' =
              IF ~g.called
              THEN Response("me", hdr, g.status, g.error, NoView, <<>>, NULL, "guard")
              ELSE get_current_user(hdr, g.user_id)

---------------------------------------------------------------------------
(* What a client can put in the Authorization header.                      *)

\* a token with one bit of its ciphertext or tag flipped
Tamper(token) == <<Blob([token[1].tok EXCEPT !.intact = FALSE])>>

\* a v4.local token an outsider seals under a key of their own
Forged(user_id, t) == generate_token(user_id, DefaultTtl, "outsider-key", t)

\* a string that is no PASETO token
Garbage == Text(<<"i","n","v","a","l","i","d","-","t","o","k","e","n">>)

Header(s) == [present |-> TRUE, value |-> s]

NoHeader == [present |-> FALSE, value |-> <<>>]

Sp == Text(<<" ">>)

\* "<scheme> <token>" in the spellings the decorator accepts
BearerHeaders(k) ==
    { Header(Text(<<"B","e","a","r","e","r">>) \o Sp \o k),
      Header(Text(<<"b","e","a","r","e","r">>) \o Sp \o k),
      Header(Sp \o Text(<<"B","E","A","R","E","R">>) \o Text(<<"\t">>) \o Sp \o k \o Sp) }

\* the shapes the decorator refuses whatever the token
OtherHeaders(k) ==
    { Header(Text(<<"B","a","s","i","c">>) \o Sp \o k),
      Header(Text(<<"B","e","a","r","e","r">>)),
      Header(k),
      Header(Text(<<"B","e","a","r","e","r">>) \o k),
      Header(Text(<<"B","e","a","r","e","r">>) \o Sp \o k \o Sp \o Text(<<"x">>)) }

\* what GET /auth/me is sent in the specification of the service
Headers ==
    {NoHeader}
    \cup UNION { BearerHeaders(h.token) : h \in held }
    \cup { Header(Text(<<"B","e","a","r","e","r">>) \o Sp \o k) :
             k \in { Tamper(h.token) : h \in held } \cup {Forged(1, now), Garbage} }

---------------------------------------------------------------------------
(* The environment, and the specification of the service.                  *)

\* no request has been answered since the service or its surroundings changed
NoRequest ==
    [op |-> "none", req |-> NoData, status |-> 0, msg |-> "", user |-> NoView,
     token |-> <<>>, verification_token |-> NULL, why |-> "none", wrote |-> FALSE]

\* time passes
Tick ==
    /\ now < MaxTicks * DefaultTtl
    /\ now' = now + DefaultTtl
    /\ last' = NoRequest
    /\ UNCHANGED <<users, inflight, secret, held, vtokOf, ok201, cx>>

\* the service is restarted over the same database with another SECRET_KEY
\* (app.py lines 29-35)
SetSecret(sec) ==
    /\ sec # secret
    /\ secret' = sec
    /\ last' = NoRequest
    /\ UNCHANGED <<users, inflight, now, held, vtokOf, ok201, cx>>

NoGuard == [status |-> 0, error |-> "", called |-> FALSE, user_id |-> 0]

NoExperiment ==
    [phase |-> "none", user_id |-> 0, expires_in |-> 0, sec |-> "", issued_at |-> 0,
     token |-> <<>>, kind |-> "none", cur |-> "", at |-> 0, hdr |-> NoHeader,
     result |-> None, guard |-> NoGuard]

Init ==
    /\ users = <<>>
    /\ inflight = EmptyBag
    /\ now = 0
    /\ secret = "dev-secret-key-change-in-production"
    /\ held = {}
    /\ last = NoRequest
    /\ vtokOf = <<>>
    /\ ok201 = <<>>
    /\ cx = NoExperiment

Body(e, p) == [hasData |-> TRUE, email |-> e, password |-> p]

\* the service, with requests handled one after the other: two accounts,
\* their verification, right and wrong logins, and /auth/me
Idle == inflight = EmptyBag

Next ==
    \/ \E data \in {Body(EmailA, Pw8), Body(EmailC, Pw9)} :
          Idle /\ SignupLookup(data, "s1")
    \/ \E r \in BagToSet(inflight) : SignupCommit(r)
    \/ \E token \in Range(vtokOf) \cup {BogusVTok} : Idle /\ VerifyLookup(token)
    \/ \E r \in BagToSet(inflight) : VerifyCommit(r)
    \/ \E data \in {Body(EmailA, Pw8), Body(EmailC, Pw9), Body(EmailC, Pw8)} :
          Idle /\ Login(data)
    \/ \E hdr \in Headers : Idle /\ Me(hdr)
    \/ Idle /\ Tick
    \/ \E sec \in Secrets : Idle /\ SetSecret(sec)

Spec == Init /\ [][Next]_vars

\* concurrent signups: every body, any interleaving of lookups and commits
SignupNext ==
    \/ \E data \in Bodies : SignupLookup(data, "s1")
    \/ \E r \in BagToSet(inflight) : SignupCommit(r)
    \/ \E r \in BagToSet(inflight) : SignupCommitFails(r)

SignupSpec == Init /\ [][SignupNext]_vars

\* concurrent verifications of two accounts
VerifyNext ==
    \/ \E data \in {Body(EmailA, Pw8), Body(EmailC, Pw9)} :
          Idle /\ SignupLookup(data, "s1")
    \/ \E r \in BagToSet(inflight) : SignupCommit(r)
    \/ \E token \in Range(vtokOf) \cup {BogusVTok} : VerifyLookup(token)
    \/ \E r \in BagToSet(inflight) : VerifyCommit(r)
    \/ \E r \in BagToSet(inflight) : VerifyCommitFails(r)

VerifySpec == Init /\ [][VerifyNext]_vars

\* logins with every body against accounts of either salt
LoginNext ==
    \/ \E data \in {Body(EmailAraw, Pw8), Body(EmailC, Pw9)} : \E salt \in Salts :
          Idle /\ SignupLookup(data, salt)
    \/ \E r \in BagToSet(inflight) : SignupCommit(r)
    \/ \E data \in Bodies : Login(data)

LoginSpec == Init /\ [][LoginNext]_vars

\* writes that fail: concurrent signups for one email and concurrent
\* verifications, where any commit may fail in the store
WriteNext ==
    \/ \E data \in {Body(EmailA, Pw8), Body(EmailAraw, Pw8), Body(EmailC, Pw9)} :
          SignupLookup(data, "s1")
    \/ \E r \in BagToSet(inflight) : SignupCommit(r)
    \/ \E r \in BagToSet(inflight) : SignupCommitFails(r)
    \/ \E token \in Range(vtokOf) : VerifyLookup(token)
    \/ \E r \in BagToSet(inflight) : VerifyCommit(r)
    \/ \E r \in BagToSet(inflight) : VerifyCommitFails(r)

WriteSpec == Init /\ [][WriteNext]_vars

---------------------------------------------------------------------------
(* generate_token, verify_token and the decorator on their own: one token  *)
(* is made, possibly damaged, and presented at later instants.             *)

\* the user ids the experiment encodes
ExperimentIds == {1, 9, 10, 205}

\* every header the experiment builds around token string k
HeadersFor(k) == {NoHeader, Header(<<>>)} \cup BearerHeaders(k) \cup OtherHeaders(k)

TokenInit ==
    /\ users = <<>>
    /\ inflight = EmptyBag
    /\ now = 0
    /\ secret = "dev-secret-key-change-in-production"
    /\ held = {}
    /\ last = NoRequest
    /\ vtokOf = <<>>
    /\ ok201 = <<>>
    /\ \E i \in ExperimentIds : \E ttl \in (-1)..MaxTtl :
       \E sec \in Secrets : \E t \in 0..MaxNow :
          cx = [NoExperiment EXCEPT !.phase = "args", !.user_id = i,
                                    !.expires_in = ttl, !.sec = sec, !.cur = sec,
                                    !.issued_at = t, !.at = t]

Frame == UNCHANGED <<users, inflight, now, secret, held, last, vtokOf, ok201>>

\* generate_token(user_id, expires_in) at the instant issued_at
TGenerate ==
    /\ cx.phase = "args"
    /\ cx' = [cx EXCEPT !.phase = "token", !.kind = "intact",
                        !.token = generate_token(cx.user_id, cx.expires_in,
                                                 cx.sec, cx.issued_at)]
    /\ Frame

\* the token is damaged or replaced before it is presented
TCorrupt(kind) ==
    /\ cx.phase = "token" /\ cx.kind = "intact"
    /\ cx' = [cx EXCEPT !.kind = kind,
                        !.token = CASE kind = "tampered" -> Tamper(cx.token)
                                    [] kind = "foreign" ->
                                         generate_token(cx.user_id, cx.expires_in,
                                                        "outsider-key", cx.issued_at)
                                    [] OTHER -> Garbage]
    /\ Frame

\* SECRET_KEY is changed between issue and verification
TSetSecret(sec) ==
    /\ cx.phase \in {"token", "answered"}
    /\ sec # cx.cur
    /\ cx' = [cx EXCEPT !.cur = sec, !.phase = "token", !.hdr = NoHeader,
                        !.result = None, !.guard = NoGuard]
    /\ Frame

\* at instant t the token goes to verify_token, and header hdr to the decorator
TPresent(hdr, t) ==
    /\ cx.phase \in {"token", "answered"}
    /\ cx' = [cx EXCEPT !.phase = "answered", !.at = t, !.hdr = hdr,
                        !.result = verify_token(cx.token, cx.cur, t),
                        !.guard = token_required(hdr, cx.cur, t)]
    /\ Frame

TokenNext ==
    \/ TGenerate
    \/ \E kind \in {"tampered", "foreign", "garbage"} : TCorrupt(kind)
    \/ \E sec \in Secrets : TSetSecret(sec)
    \/ \E hdr \in HeadersFor(cx.token) : \E t \in cx.at..MaxNow : TPresent(hdr, t)

TokenSpec == TokenInit /\ [][TokenNext]_vars

---------------------------------------------------------------------------
(* Properties.                                                             *)

\* the two strings are one email once trimmed and lowercased
SameEmail(e1, e2) == NormalizeEmail(e1) = NormalizeEmail(e2)

\* C1: two signups whose emails normalize to the same string are never both
\* answered 201, however their lookups and commits interleave, and the table
\* never holds two users with one normalized email.
C1_OneAccountPerEmail ==
    /\ \A i, j \in DOMAIN ok201 : i # j => ~SameEmail(ok201[i], ok201[j])
    /\ \A i, j \in DOMAIN users : i # j => ~SameEmail(users[i].email, users[j].email)

\* two signups spelling one email differently both passed the lookup; one was
\* answered 201 and the other has now been answered too
C1_Witness ==
    /\ last.op = "signup" /\ last.why = "integrity"
    /\ \E i \in DOMAIN ok201 :
          SameEmail(ok201[i], last.req.email) /\ ok201[i] # last.req.email

\* C2: a signup whose email belongs to a stored user when it creates its row is
\* answered 409, whether the user was there at the lookup or arrived between the
\* lookup and the commit; a duplicate email is never answered 500.
C2_DuplicateAnswers409 ==
    (last.op = "signup" /\ last.why \in {"exists", "integrity"}) => last.status = 409

\* the verification token was issued to a user who has since been verified
Consumed(token) ==
    \E i \in DOMAIN users : vtokOf[i] = token /\ users[i].is_verified

\* the answer was given by the lookup of verify_email itself
AnsweredAtLookup == last.op = "verify" /\ last.why \in {"nomatch", "already"}

\* C3: once a verify request with token t has succeeded, a later verify request
\* with the same t succeeds too (200) and leaves the table as it was.
C3_SecondVerifySucceeds ==
    (AnsweredAtLookup /\ Consumed(last.req)) => (last.status = 200 /\ ~last.wrote)

\* C4: a verify request that matches an unverified user sets is_verified and
\* nulls verification_token in one update; every later verify request with that
\* token matches no user, is answered 400 and leaves the table as it was.
C4_SingleUse ==
    /\ (last.op = "verify" /\ last.status = 200 /\ last.wrote) =>
          \E i \in DOMAIN users :
             /\ vtokOf[i] = last.req
             /\ users[i].is_verified /\ users[i].verification_token = NULL
             /\ last.user = to_dict(users[i])
    /\ (AnsweredAtLookup /\ Consumed(last.req)) =>
          (last.status = 400 /\ ~last.wrote /\ ByVTok(last.req) = {})

\* a token that verified its user has been presented again and refused
C4_Witness == AnsweredAtLookup /\ Consumed(last.req) /\ last.status = 400

\* the positions at which a whitespace-separated part of the header begins
WordStarts(v) ==
    { i \in DOMAIN v : ~IsSpace(v[i].ch) /\ (i = 1 \/ IsSpace(v[i - 1].ch)) }

\* the header's first whitespace-separated part
FirstWord(v) ==
    LET i == CHOOSE k \in WordStarts(v) : \A m \in WordStarts(v) : k <= m
        j == CHOOSE k \in i..Len(v) :
                /\ \A m \in i..k : ~IsSpace(v[m].ch)
                /\ (k = Len(v) \/ IsSpace(v[k + 1].ch))
    IN  SubSeq(v, i, j)

\* the header is "<scheme> <token>" with the scheme bearer in any case
WellFormed(hdr) ==
    /\ hdr.present
    /\ Cardinality(WordStarts(hdr.value)) = 2
    /\ LowerItems(FirstWord(hdr.value)) = Bearer

\* the instant at which the experiment's token expires
Expiry == cx.issued_at + cx.expires_in

\* the experiment's token has just been presented
Answered == cx.phase = "answered"

\* C5: the guard answers 401 and does not call the protected operation when the
\* header is absent, does not split into exactly two parts, has a first part
\* other than bearer in any case, or carries a token that is malformed, tampered
\* with or expired.
C5_GuardRejects ==
    (Answered /\ (~WellFormed(cx.hdr) \/ cx.kind # "intact" \/ cx.at > Expiry))
        => (cx.guard.status = 401 /\ ~cx.guard.called)

\* a tampered token, unexpired and under the secret of its issue, was presented
\* in a well-formed header and refused
C5_Witness ==
    /\ Answered /\ WellFormed(cx.hdr) /\ cx.kind = "tampered"
    /\ cx.cur = cx.sec /\ cx.at <= Expiry
    /\ cx.guard.status = 401

\* C6: at every instant strictly after issue time + ttl, verify_token fails for
\* the token, intact or not, and the guard answers 401.
C6_ExpiredAlwaysFails ==
    (Answered /\ cx.at > Expiry)
        => (~cx.result.ok /\ cx.guard.status = 401 /\ ~cx.guard.called)

\* an intact token was presented after its expiry, under the secret of its
\* issue and in a well-formed header
C6_Witness ==
    /\ Answered /\ cx.kind = "intact" /\ cx.cur = cx.sec /\ WellFormed(cx.hdr)
    /\ cx.expires_in > 0 /\ cx.at > Expiry
    /\ ~cx.result.ok

\* C7: for every user id and positive ttl, verify_token of the generated token,
\* under the same secret and before the expiry, returns claims whose subject
\* converts back to that id.
C7_RoundTrip ==
    (Answered /\ cx.kind = "intact" /\ cx.cur = cx.sec
              /\ cx.expires_in > 0 /\ cx.at < Expiry)
        => /\ cx.result.ok
           /\ IsIntStr(cx.result.payload.sub)
           /\ IntOfStr(cx.result.payload.sub) = cx.user_id

\* a three-digit id came back from a token verified after its issue instant
C7_Witness ==
    /\ Answered /\ cx.kind = "intact" /\ cx.cur = cx.sec
    /\ cx.expires_in > 0 /\ cx.issued_at < cx.at /\ cx.at < Expiry
    /\ cx.user_id = 205 /\ cx.result.ok

\* the password a row's hash was computed from
PasswordOf(u) == u.password_hash.digest[2]

\* the login named an email with no account, or an account and another password
BadCredentials(data) ==
    \/ ByEmail(NormalizeEmail(data.email)) = {}
    \/ \E i \in ByEmail(NormalizeEmail(data.email)) :
          PasswordOf(users[i]) # data.password

\* the one answer to bad credentials
IsInvalidCredentials(r) ==
    /\ r.status = 401 /\ r.msg = "Invalid email or password"
    /\ r.user = NoView /\ r.token = <<>> /\ ~r.wrote

\* C8 as stated: for every non-empty email and password, a login with a wrong
\* password and a login with an unknown email get the identical 401.
C8_AnyNonEmptyEmail ==
    (last.op = "login" /\ last.req.hasData
        /\ last.req.email # <<>> /\ last.req.password # <<>>
        /\ BadCredentials(last.req))
        => IsInvalidCredentials(last)

\* C8 amended: for every email that is non-empty once trimmed, and every
\* non-empty password, a login with a wrong password and a login with an
\* unknown email get the identical 401.
C8_SameAnswer ==
    (last.op = "login" /\ last.req.hasData
        /\ Strip(last.req.email) # <<>> /\ last.req.password # <<>>
        /\ BadCredentials(last.req))
        => IsInvalidCredentials(last)

\* a login named an existing account and another password
C8_Witness ==
    /\ last.op = "login" /\ last.status = 401
    /\ \E i \in ByEmail(NormalizeEmail(last.req.email)) :
          PasswordOf(users[i]) # last.req.password /\ last.req.password # <<>>

\* C9: after any signups, verifications and logins, /auth/me with a token that a
\* login of user u issued, presented no later than its expiry and under the
\* secret of its issue, answers 200 with the public view of u.
C9_MeReturnsOwner ==
    \A h \in held :
        (last.op = "me" /\ last.req \in BearerHeaders(h.token)
            /\ now <= h.iat + DefaultTtl /\ secret = h.sec)
        => /\ last.status = 200
           /\ h.uid \in DOMAIN users
           /\ last.user = to_dict(users[h.uid])

\* the second of two users read their own view, some time after logging in
C9_Witness ==
    /\ last.op = "me" /\ last.status = 200 /\ last.user.id = 2
    /\ Len(users) = 2 /\ now > 0
    /\ \E h \in held : h.uid = 2 /\ h.iat < now /\ last.req \in BearerHeaders(h.token)

\* C10: the guard's answer to a malformed token, to a forged one and to an
\* expired one is the same 401 with the same body, and a missing token gets 401
\* too.
C10_UniformRejection ==
    Answered =>
        /\ (WellFormed(cx.hdr) /\ (cx.kind # "intact" \/ cx.at > Expiry))
              => /\ cx.guard.status = 401
                 /\ cx.guard.error = "Token is invalid or expired"
        /\ ~WellFormed(cx.hdr) => cx.guard.status = 401

\* an intact token, past its expiry, got the answer a forged one gets
C10_Witness ==
    /\ Answered /\ WellFormed(cx.hdr) /\ cx.kind = "intact" /\ cx.cur = cx.sec
    /\ cx.at > Expiry
    /\ cx.guard.error = "Token is invalid or expired"

\* the email of the request fails the pattern once trimmed and lowercased
BadEmail(data) == ~is_valid_email(NormalizeEmail(data.email))

\* the signup was turned away by its validation or its lookup
Rejected == last.op = "signup" /\ last.status \in {400, 409}

\* C11: signup validates the email first and the password second: an invalid or
\* empty email is answered 400 whatever the password, a valid email with a
\* password under 8 characters is answered 400, a password of exactly 8
\* characters passes validation, and a rejected signup leaves the table as it was.
C11_ValidationOrder ==
    /\ (last.op = "signup" /\ last.req.hasData /\ BadEmail(last.req)) =>
          (last.status = 400 /\ last.msg = "Valid email is required")
    /\ (last.op = "signup" /\ last.req.hasData /\ ~BadEmail(last.req)
            /\ Len(last.req.password) < 8) =>
          (last.status = 400 /\ last.msg = "Password must be at least 8 characters")
    /\ (last.op = "signup" /\ last.req.hasData /\ ~BadEmail(last.req)
            /\ Len(last.req.password) = 8) => last.status # 400
    /\ \A r \in BagToSet(inflight) :
          r.op = "signup" => (~BadEmail(r.data) /\ Len(r.data.password) >= 8)
    /\ Rejected => ~last.wrote

\* a signup with a bad email and a short password was refused for its email,
\* while a user created with a password of exactly 8 characters is stored
C11_Witness ==
    /\ Rejected /\ last.req.email = EmailNoAt /\ last.req.password = Pw7
    /\ last.msg = "Valid email is required"
    /\ \E i \in DOMAIN users : Len(PasswordOf(users[i])) = 8

\* C12: a signup answered 201 adds exactly one user, with the normalized email,
\* is_verified false and a non-null verification_token; the token in the
\* response is the one stored, and every other user is as it was.
C12_SignupCreatesOne ==
    [][ (last'.op = "signup" /\ last'.status = 201 /\ last' # last) =>
           LET n == Len(users) + 1
           IN  /\ Len(users') = n
               /\ SubSeq(users', 1, n - 1) = users
               /\ users'[n].id = n
               /\ users'[n].email = NormalizeEmail(last'.req.email)
               /\ ~users'[n].is_verified
               /\ users'[n].verification_token # NULL
               /\ last'.verification_token = users'[n].verification_token
               /\ last'.user = to_dict(users'[n]) ]_vars

\* a second user was created from an email sent with spaces and capitals
C12_Witness ==
    /\ last.op = "signup" /\ last.status = 201 /\ last.req.email = EmailAraw
    /\ Len(users) = 2 /\ users[2].email = EmailA

\* the commit of the request just answered failed in the store
StoreFailed(op) == last.op = op /\ last.why = "store"

\* the users a verification token was issued to
IssuedTo(token) == { i \in DOMAIN users : vtokOf[i] = token }

\* C13 as stated: a signup whose commit fails is answered 500 and no user holds
\* its email; a verification whose commit fails is answered 500 and the user is
\* unverified with the token still stored.
C13_NothingForThatEmail ==
    /\ StoreFailed("signup") =>
          (last.status = 500 /\ ByEmail(NormalizeEmail(last.req.email)) = {})
    /\ StoreFailed("verify") =>
          /\ last.status = 500
          /\ \A i \in IssuedTo(last.req) :
                ~users[i].is_verified /\ users[i].verification_token = last.req

\* C13 amended: a write that fails in the store is answered 500 and leaves the
\* table as it was before the failing commit.  After a failed signup every
\* stored user, the holder of that email included, was created by a signup
\* answered 201; after a failed verification the user is either unverified with
\* the token stored or, when another verification of the token completed,
\* verified with the token cleared, never in between.
C13_FailedWriteChangesNothing ==
    /\ (StoreFailed("signup") \/ StoreFailed("verify")) =>
          (last.status = 500 /\ ~last.wrote)
    /\ StoreFailed("signup") =>
          /\ Len(users) = Len(ok201)
          /\ \A i \in ByEmail(NormalizeEmail(last.req.email)) :
                SameEmail(ok201[i], last.req.email)
    /\ StoreFailed("verify") =>
          \A i \in IssuedTo(last.req) :
             \/ ~users[i].is_verified /\ users[i].verification_token = last.req
             \/ users[i].is_verified /\ users[i].verification_token = NULL

\* a verification failed in the store and its user is still unverified, the
\* token in place
C13_Witness ==
    /\ StoreFailed("verify") /\ last.status = 500
    /\ \E i \in IssuedTo(last.req) :
          ~users[i].is_verified /\ users[i].verification_token = last.req

\* C14: a token issued under one secret fails verify_token, and the guard
\* answers it 401 without calling the protected operation, whenever the current
\* secret is another one, its expiry reached or not.
C14_SecretChangeInvalidates ==
    (Answered /\ cx.cur # cx.sec)
        => (~cx.result.ok /\ cx.guard.status = 401 /\ ~cx.guard.called)

\* an intact token, not yet expired and in a well-formed header, was refused
\* after the secret had been changed
C14_Witness ==
    /\ Answered /\ cx.kind = "intact" /\ WellFormed(cx.hdr)
    /\ cx.cur # cx.sec /\ cx.expires_in > 0 /\ cx.at < Expiry
    /\ ~cx.result.ok /\ cx.guard.status = 401

\* the columns of a stored user
Columns ==
    {"id", "email", "password_hash", "is_verified", "verification_token", "created_at"}

\* C15: every login, successful or not, leaves the users table as it was, and
\* the server keeps no record of the tokens it issued: no request is left
\* pending and a stored user has the columns of the model and nothing else.
C15_LoginStoresNothing ==
    last.op = "login" =>
        /\ ~last.wrote
        /\ \A r \in BagToSet(inflight) : r.op # "login"
        /\ \A i \in DOMAIN users : DOMAIN users[i] = Columns

\* a login succeeded and issued a token while users were stored
C15_Witness ==
    /\ last.op = "login" /\ last.status = 200 /\ last.token # <<>>
    /\ Len(users) = 2 /\ ~last.wrote

\* the guard let the request through to get_current_user
Admitted == last.op = "me" /\ last.why # "guard"

\* C16: with tokens that only login produces, every request the guard admits
\* carries the token of an earlier successful login, made under the secret now
\* in force, and its subject is the user who logged in.
C16_AdmitsOnlyLoggedIn ==
    Admitted =>
        \E h \in held :
            /\ last.req \in BearerHeaders(h.token)
            /\ h.sec = secret /\ h.iat <= now
            /\ h.uid \in DOMAIN users
            /\ last.status = 200 /\ last.user.id = h.uid

\* the first of two users was admitted under a secret other than the initial
\* one, while forged and tampered tokens could be sent as well
C16_Witness ==
    /\ Admitted /\ last.status = 200 /\ last.user.id = 1
    /\ Len(users) = 2 /\ secret = "test-secret-key"

\* the users registered under a spelling of the email with this password
RegisteredAs(email, password) ==
    { i \in DOMAIN users :
        SameEmail(ok201[i], email) /\ PasswordOf(users[i]) = password }

\* C17: a user registered with email e1 and password p is found by a login
\* with p and any e2 that trims and lowercases to the same string as e1, and
\* the login is answered 200 with that user and a token.
C17_LoginFindsRegistered ==
    (last.op = "login" /\ last.req.hasData) =>
        \A i \in RegisteredAs(last.req.email, last.req.password) :
            /\ last.status = 200
            /\ last.user = to_dict(users[i])
            /\ last.token # <<>>

\* a user registered with spaces and capitals logged in with the plain spelling
C17_Witness ==
    /\ last.op = "login" /\ last.status = 200 /\ last.req.email = EmailA
    /\ \E i \in RegisteredAs(last.req.email, last.req.password) :
          ok201[i] = EmailAraw

C19_VerifiedIffTokenNull ==
    /\ \A i \in DOMAIN users :
          users[i].is_verified <=> users[i].verification_token = NULL
    /\ ~(last.op = "verify" /\ last.why = "already")

\* two verifications of one token ran concurrently and the second commit found
\* its user verified already, while another user is still unverified
C19_Witness ==
    /\ Len(users) = 2
    /\ last.op = "verify" /\ last.status = 200 /\ ~last.wrote
    /\ \E i \in IssuedTo(last.req) : users[i].is_verified
    /\ \E j \in DOMAIN users : ~users[j].is_verified /\ users[j].verification_token # NULL

\* the users whose email and password the login request names
Matching(data) ==
    { i \in ByEmail(NormalizeEmail(data.email)) : PasswordOf(users[i]) = data.password }

\* C20: verification gates nothing.  A login with the right password is
\* answered 200 with a token, and /auth/me with a token kept from a login,
\* unexpired and under the secret of its issue, is answered 200 with the user's
\* view, whether the user is verified or not.
C20_VerificationGatesNothing ==
    /\ last.op = "login" =>
          \A i \in Matching(last.req) :
             /\ last.status = 200 /\ last.msg = "Login successful"
             /\ last.token # <<>>
             /\ last.user = to_dict(users[i])
    /\ last.op = "me" =>
          \A h \in held :
             (last.req \in BearerHeaders(h.token)
                 /\ now <= h.iat + DefaultTtl /\ secret = h.sec)
             => (last.status = 200 /\ last.user = to_dict(users[h.uid]))

\* a user who never verified read their own view with the token of a login,
\* while the other user is verified
C20_Witness ==
    /\ last.op = "me" /\ last.status = 200 /\ ~last.user.is_verified
    /\ \E h \in held : h.uid = last.user.id /\ last.req \in BearerHeaders(h.token)
    /\ \E j \in DOMAIN users : users[j].is_verified

\* the experiment's token is intact and presented under the secret of its issue
Genuine == Answered /\ cx.kind = "intact" /\ cx.cur = cx.sec

\* C21: for an intact token under the secret of its issue, verify_token accepts
\* at every instant up to and including the expiry and rejects exactly at the
\* instants after it; a token generated with expires_in <= 0 is rejected at
\* every instant after its issue.
C21_StrictExpiry ==
    Genuine =>
        /\ cx.result.ok <=> cx.at <= Expiry
        /\ ~cx.result.ok <=> Expiry < cx.at
        /\ (cx.expires_in <= 0 /\ cx.at > cx.issued_at) => ~cx.result.ok

\* a token with a positive lifetime was accepted at the very instant of its
\* expiry
C21_Witness ==
    /\ Genuine /\ cx.expires_in > 0 /\ cx.at = Expiry
    /\ cx.result.ok /\ cx.result.payload.exp = IsoFormat(cx.at)

=============================================================================
